---- MODULE Spec2Model ----
(***************************************************************************)
(* Model of internal/knot/knot_resolver.c: the fallback resolver that      *)
(* builds one query, tries the root servers in order over UDP, parses the  *)
(* first datagram it receives and packages a result.                       *)
(*                                                                         *)
(* A DNS message is a sequence of naturals: four header words              *)
(* <<flags, ancount, nscount, arcount>> followed by one word per resource  *)
(* record, holding the record's type.  The low four bits of the flags word *)
(* are the rcode.  Lengths are counted in these words.                     *)
(***************************************************************************)
EXTENDS Integers, Sequences, FiniteSets, TLC

\* ---------------------------------------------------------------- bounds
MaxRR == 1
MaxCalls == 2
MaxFd == 2
MaxConcCalls == 1

\* ------------------------------------------------------------- constants
NumRootServers == 13
RESPONSE_BUF == 4096
DNS_PORT == 53
RCVTIMEO_SEC == 5
SERVFAIL == 2
KNOT_PKT_SECTIONS == 3
KNOT_RRTYPE_A == 1
KNOT_RRTYPE_RRSIG == 46

Calls == {1, 2}
Fds == 1 .. MaxFd

\* A pointer is the empty set when it is NULL and {object} otherwise.
None == {}
Some(x) == {x}
The(s) == CHOOSE x \in s : TRUE

\* root_servers[]: a server's position in the list stands for its address;
\* the list ends with the NULL terminator after NumRootServers entries.
root_servers == [k \in 1 .. NumRootServers |-> k]

MSG_INVALID_PARAMS == "Invalid parameters"
MSG_QUERY_PKT == "Failed to create query packet"
MSG_INVALID_NAME == "Invalid domain name"
MSG_QUERY == "Failed to create query"
MSG_NO_RESPONSE == "No response from root servers"
MSG_RESPONSE_PKT == "Failed to create response packet"
MSG_PARSE == "Failed to parse response"

\* ------------------------------------------------------------ registries
\* qtype_map[] and qclass_map[]: code and name, closed by the entry whose
\* name is NULL.
qtype_map ==
    << <<1, Some("A")>>, <<2, Some("NS")>>, <<5, Some("CNAME")>>, <<6, Some("SOA")>>,
       <<12, Some("PTR")>>, <<15, Some("MX")>>, <<16, Some("TXT")>>,
       <<28, Some("AAAA")>>, <<33, Some("SRV")>>, <<43, Some("DS")>>,
       <<46, Some("RRSIG")>>, <<47, Some("NSEC")>>, <<48, Some("DNSKEY")>>,
       <<50, Some("NSEC3")>>, <<51, Some("NSEC3PARAM")>>, <<0, None>> >>

qclass_map ==
    << <<1, Some("IN")>>, <<3, Some("CH")>>, <<4, Some("HS")>>, <<0, None>> >>

\* The loop shared by both lookups: from entry k on, stop at the entry whose
\* name is NULL, return the name of the first entry whose code matches.
RECURSIVE MapScan(_, _, _)
MapScan(map, k, code) ==
    IF map[k][2] = None THEN "UNKNOWN"
    ELSE IF map[k][1] = code THEN The(map[k][2])
    ELSE MapScan(map, k + 1, code)

\* Faulty variant: the type lookup scans the class table.
qtype_from_class_table(qtype) == MapScan(qclass_map, 1, qtype)

knot_qtype_to_string(qtype) == MapScan(qtype_map, 1, qtype)

knot_qclass_to_string(qclass) == MapScan(qclass_map, 1, qclass)

\* ------------------------------------------------------------ input sets
\* A textual name is the sequence of its label lengths: "example.com" is
\* <<7, 3>>, "" is <<>>, "a..b" is <<1, 0, 1>>, a 64-byte label is <<64>>.
QNames == {<<>>, <<1, 0, 1>>, <<7, 3>>, <<64>>}
QTypes == {KNOT_RRTYPE_A}
QClasses == {1}
TxIds == {0, 65535}
Timeouts == {1000, 30000}
RootHints == {None, Some("root.hints")}
RRTypes == {KNOT_RRTYPE_A, KNOT_RRTYPE_RRSIG}

SeqsUpTo(S, n) == UNION {[1 .. k -> S] : k \in 0 .. n}

\* Every datagram a server can send: the empty one, and every header whose
\* record counts sum to at most MaxRR followed by up to MaxRR records (so the
\* counts may or may not agree with the records that follow).
AllWires ==
    {<<f, a, n, r>> \o rrs :
        f \in 0 .. 15,
        a \in 0 .. MaxRR, n \in 0 .. MaxRR, r \in 0 .. MaxRR,
        rrs \in SeqsUpTo(RRTypes, MaxRR)}
Wires == {<<>>} \cup {w \in AllWires : w[2] + w[3] + w[4] <= MaxRR}

\* A small network: the empty datagram, an unsigned answer, a signed one with
\* rcode 3, and a message whose counts promise a record that is missing.
NetConc == {<<3, 1, 0, 0, KNOT_RRTYPE_RRSIG>>, <<0, 1, 0, 0>>}
NetSmall == {<<>>, <<0, 0, 0, 0>>, <<3, 1, 0, 0, KNOT_RRTYPE_RRSIG>>, <<0, 1, 0, 0>>}

\* The networks a run can have, by name.
NetOf(n) ==
    CASE n = "any" -> Wires
      [] n = "small" -> NetSmall
      [] n = "conc" -> NetConc

\* ------------------------------------------------------- the message codec
\* knot_dname_from_str_alloc: NULL for an empty name, an empty label or a
\* label longer than 63 bytes; otherwise the wire form (labels, then the
\* root label).
knot_dname_from_str_alloc(qname) ==
    IF Len(qname) = 0 \/ \E k \in 1 .. Len(qname) : qname[k] < 1 \/ qname[k] > 63
    THEN None
    ELSE Some(qname \o <<0>>)

\* Faulty variant: bogus reported for an unsigned answer under DNSSEC.
bogus_when_unsigned(dnssec_enabled, wire) ==
    dnssec_enabled /\ \A k \in 5 .. Len(wire) : wire[k] # KNOT_RRTYPE_RRSIG

\* The locals of lines 219-220 after the scan: bogus is never assigned again.
Bogus(dnssec_enabled, wire) == FALSE

\* Faulty variant: the OPT record is put only for a context with DNSSEC.
opt_when_dnssec(dnssec_enabled, opt_rr, rdataOk, putOk) ==
    dnssec_enabled /\ opt_rr /\ putOk

\* Lines 179-184: whether the OPT record is in the query.  It is when
\* knot_rrset_new returned a record and knot_pkt_put put it; the return
\* values of knot_rrset_add_rdata and knot_pkt_put are ignored, so a failed
\* put leaves a query without the record and the call goes on.  The
\* context's flag is not read.
AttachOpt(dnssec_enabled, opt_rr, rdataOk, putOk) == opt_rr /\ putOk

\* knot_pkt_put_question, then the header flags and id, then the OPT record
\* when one was built: the query message held by query_pkt.
BuildQueryPkt(dn, qclass, qtype, id, withOpt) ==
    [qname |-> dn, qclass |-> qclass, qtype |-> qtype,
     qr |-> FALSE, rd |-> TRUE, id |-> id, opt |-> withOpt]

\* query_pkt->size: header, question name, type and class, OPT record.
QuerySize(q) == 4 + Len(q.qname) + 2 + (IF q.opt THEN 1 ELSE 0)

\* knot_pkt_parse: the header must be complete and its record counts must
\* account for exactly the records that follow.
knot_pkt_parse(wire) ==
    /\ Len(wire) >= 4
    /\ wire[2] + wire[3] + wire[4] = Len(wire) - 4

\* Faulty variant: the rcode mask drops the top bit.
rcode_three_bits(wire) == wire[1] % 8

\* knot_wire_get_rcode: the low four bits of the flags word.
knot_wire_get_rcode(wire) == wire[1] % 16

\* knot_pkt_section / knot_pkt_rr: the records of section s (0 answer,
\* 1 authority, 2 additional) of a parsed message.
SectionStart(wire, s) ==
    4 + (IF s >= 1 THEN wire[2] ELSE 0) + (IF s >= 2 THEN wire[3] ELSE 0)

knot_pkt_section(wire, s) ==
    [k \in 1 .. wire[2 + s] |-> wire[SectionStart(wire, s) + k]]

\* The scan of lines 225-235: some record of some section is an RRSIG.
HasRRSIG(wire) ==
    \E s \in 0 .. KNOT_PKT_SECTIONS - 1 :
        \E k \in 1 .. Len(knot_pkt_section(wire, s)) :
            knot_pkt_section(wire, s)[k] = KNOT_RRTYPE_RRSIG

\* Faulty variant: the scan is not gated by the context's flag.
secure_ungated(dnssec_enabled, wire) == HasRRSIG(wire)

\* secure as computed by lines 219-236.
Secure(dnssec_enabled, wire) == dnssec_enabled /\ HasRRSIG(wire)

\* ------------------------------------------------------------ the results
\* create_error_result; mallocOk and strdupOk are the outcomes of its two
\* allocations.
create_error_result(error_msg, mallocOk, strdupOk) ==
    IF ~mallocOk THEN None
    ELSE Some([wire |-> None, wire_size |-> 0, rcode |-> SERVFAIL,
               secure |-> FALSE, bogus |-> FALSE,
               error_msg |-> IF strdupOk THEN Some(error_msg) ELSE None])

\* create_success_result; wire is the buffer copied from (its bytes and where
\* they came from).
create_success_result(wire, wire_size, rcode, secure, bogus, mallocOk, wireOk) ==
    IF ~mallocOk \/ ~wireOk THEN None
    ELSE Some([wire |-> Some(wire), wire_size |-> wire_size, rcode |-> rcode,
               secure |-> secure, bogus |-> bogus, error_msg |-> None])

\* Faulty variant: the context is not checked.
resolver_unchecked(r, qname) == qname = None

\* The test of line 296.
InvalidParameters(r, qname) == r = None \/ qname = None

\* --------------------------------------------------------------- sockets
\* Faulty variant: socket() hands out descriptor 1 every time.
first_descriptor(fdt) == 1

\* socket(): the lowest free descriptor.
LowestFree(fdt) == CHOOSE fd \in Fds : fdt[fd] = 0 /\ \A g \in Fds : g < fd => fdt[g] # 0
close(fdt, fd) == [fdt EXCEPT ![fd] = 0]

\* Faulty variant: only an error of sendto counts, a short send goes on.
send_failed_on_error_only(sent, query_len) == sent < 0

\* The test of line 135 and the close of line 136.
SendFailed(sent, query_len) == sent # query_len

\* Faulty variant: the send-failure path returns without closing.
no_close_after_send(fdt, fd) == fdt
CloseAfterSend(fdt, fd) == close(fdt, fd)

\* Faulty variant: the length test looks for a negative length.
no_response_negative(len) == len < 0

\* The test of line 197.
NoResponse(len) == len = 0

\* Faulty variant: the loop has no break.
after_attempt_no_break(ret, idx) == [pc |-> "loop", i |-> idx + 1]

\* Lines 190-195: a return of 0 breaks out of the loop, anything else moves
\* on to the next server.
AfterAttempt(ret, idx) ==
    IF ret = 0 THEN [pc |-> "check_len", i |-> idx]
    ELSE [pc |-> "loop", i |-> idx + 1]

\* ------------------------------------------------------------------ state
VARIABLES
    resolver,       \* the context knot_resolver_new returned: NULL or the object
    params,         \* the arguments knot_resolver_new can get in this run: the
                    \* name of the set
    faults,         \* whether an allocation may fail in this run
    threads,        \* the callers that run
    net,            \* the network of this run: the name of the set of datagrams
                    \* it can deliver
    ids,            \* the values rand() & 0xFFFF can take in this run
    maxcalls,       \* the number of calls each caller makes in this run
    puts,           \* the outcomes knot_pkt_put of the OPT record can have in
                    \* this run (TRUE: the record is in the message)
    heap,           \* the allocated objects the caller owns: context and results
    frees,          \* history: the arguments knot_resolver_free was called with
    lookup,         \* a registry lookup: which table, the code, the name returned
    resolver2,      \* a second context, for runs that compare two contexts;
                    \* the same as resolver in all other runs
    twins,          \* the callers that use resolver2 and repeat the other
                    \* caller's call under the same transport outcomes
    pc,             \* each caller's position in knot_resolver_resolve
    args,           \* the arguments of the call in progress
    query_pkt,      \* recursive_resolve's query_pkt (NULL or the message)
    dname,          \* recursive_resolve's dname
    opt_rr,         \* recursive_resolve's opt_rr
    response,       \* the response[4096] buffer: its bytes and their origin
    response_len,   \* recursive_resolve's response_len
    i,              \* the loop index of line 190
    xfer,           \* send_dns_query's locals: sockfd, timeout, sent, received
    fdtable,        \* the process's descriptors: the caller owning each, or 0
    response_pkt,   \* recursive_resolve's response_pkt
    result,         \* the value returned (NULL or the result object)
    contacted,      \* history: the servers send_dns_query was called for
    rets,           \* history: what each of those calls returned
    codec,          \* history: how knot_pkt_put of the OPT record and
                    \* knot_pkt_parse of the buffer ended in the call
    ncalls,         \* history: calls each caller has completed
    leaked          \* history: objects still allocated when their call ended

vars == <<resolver, params, faults, threads, net, ids, maxcalls, puts, heap, frees, lookup, resolver2,
          twins, pc, args, query_pkt, dname, opt_rr,
          response, response_len, i, xfer, fdtable, response_pkt, result,
          contacted, rets, codec, ncalls, leaked>>

locals == <<query_pkt, dname, opt_rr, response, response_len, i, response_pkt>>
history == <<contacted, rets, codec>>
config == <<params, faults, threads, net, ids, maxcalls, puts, twins>>
world == <<resolver, config, frees, lookup, resolver2>>
returned == <<result, heap>>

NoArgs == [resolver |-> None, qname |-> None, qtype |-> 0, qclass |-> 0]
NoXfer ==
    [sockfd |-> 0, tv_sec |-> 0, port |-> 0, query_len |-> 0, sent |-> 0, received |-> 0,
     ops |-> <<>>]
Uninit == [from |-> 0, bytes |-> <<>>]
NoLookup == [kind |-> "none", code |-> 0, name |-> None]
NoCodec == [opt_put |-> "none", called |-> FALSE, ok |-> FALSE, msg |-> <<>>]

\* knot_resolver_new; resolverOk, mmOk and strdupOk are the outcomes of its
\* two mallocs and of the strdup of line 271.  NULL when a malloc fails (the
\* context is freed again when the second does); a failed strdup leaves
\* root_hints NULL in a context that is returned all the same.
knot_resolver_new(dnssec_enabled, timeout_ms, root_hints, resolverOk, mmOk, strdupOk) ==
    IF ~resolverOk THEN None
    ELSE IF ~mmOk THEN None
    ELSE Some([dnssec_enabled |-> dnssec_enabled, timeout_ms |-> timeout_ms,
               root_hints |-> IF root_hints # None /\ strdupOk THEN root_hints ELSE None])

\* The pointers the owner keeps for the contexts it has built, and the
\* allocations behind each: the context (line 252), its mm (258) and the
\* copy of root_hints (271).
Handles == {"resolver", "resolver2"}

Parts(n) ==
    IF n = "resolver2"
    THEN [ctx |-> <<0, "resolver2">>, mm |-> <<0, "mm2">>, root_hints |-> <<0, "root_hints2">>]
    ELSE [ctx |-> <<0, "resolver">>, mm |-> <<0, "mm">>, root_hints |-> <<0, "root_hints">>]

\* What a call of knot_resolver_new that returned r, kept in pointer n, has
\* left allocated.
ContextObjects(r, n) ==
    IF r = None THEN {}
    ELSE {Parts(n).ctx, Parts(n).mm}
         \cup (IF The(r).root_hints # None THEN {Parts(n).root_hints} ELSE {})

\* The argument sets of knot_resolver_new, by name: either DNSSEC setting
\* with one timeout and no hints, every combination, one combination.
ParamsOf(p) ==
    CASE p = "dnssec" -> {<<d, CHOOSE t \in Timeouts : TRUE, None>> : d \in BOOLEAN}
      [] p = "all" -> BOOLEAN \X Timeouts \X RootHints
      [] p = "one" -> {<<TRUE, CHOOSE t \in Timeouts : TRUE, None>>}

FieldsDiffering(a, b) ==
    {f \in {"dnssec_enabled", "timeout_ms", "root_hints"} : a[f] # b[f]}

\* No context exists yet.
InitCalls(faultSet, threadSet, paramSet, network) ==
    /\ resolver = None
    /\ resolver2 = None
    /\ params = paramSet
    /\ faults \in faultSet
    /\ threads = threadSet
    /\ net = network
    /\ heap = {}
    /\ frees = <<>>
    /\ pc = [c \in Calls |-> "idle"]
    /\ args = [c \in Calls |-> NoArgs]
    /\ query_pkt = [c \in Calls |-> None]
    /\ dname = [c \in Calls |-> None]
    /\ opt_rr = [c \in Calls |-> None]
    /\ response = [c \in Calls |-> Uninit]
    /\ response_len = [c \in Calls |-> 0]
    /\ i = [c \in Calls |-> 0]
    /\ xfer = [c \in Calls |-> NoXfer]
    /\ fdtable = [fd \in Fds |-> 0]
    /\ response_pkt = [c \in Calls |-> None]
    /\ result = [c \in Calls |-> None]
    /\ contacted = [c \in Calls |-> <<>>]
    /\ rets = [c \in Calls |-> <<>>]
    /\ codec = [c \in Calls |-> NoCodec]
    /\ ncalls = [c \in Calls |-> 0]
    /\ leaked = 0

InitOf(faultSet, threadSet, paramSet, network) ==
    /\ InitCalls(faultSet, threadSet, paramSet, network)
    /\ ids = TxIds
    /\ maxcalls = MaxCalls
    /\ puts = BOOLEAN
    /\ lookup = NoLookup
    /\ twins = {}

InitWith(faultSet, threadSet, paramSet) == InitOf(faultSet, threadSet, paramSet, "any")

\* One caller, a context with either DNSSEC setting, allocations succeed.
Init == InitWith({FALSE}, {1}, "dnssec")

\* The same, with allocations that may fail.
InitAlloc == InitWith({TRUE}, {1}, "dnssec")

\* Every context knot_resolver_new can build from the input sets, a small
\* network, allocations that may fail.
InitCtx == InitOf({TRUE}, {1}, "all", "small")

\* The outcomes an allocation (malloc, strdup, knot_pkt_new, knot_rrset_new)
\* can have in this run.
AllocOutcomes == IF faults THEN BOOLEAN ELSE {TRUE}

\* The allocations a result handed to caller c consists of.
ResultObjects(c, r) ==
    IF r = None THEN {}
    ELSE {<<c, "result">>}
         \cup (IF The(r).wire # None THEN {<<c, "wire">>} ELSE {})
         \cup (IF The(r).error_msg # None THEN {<<c, "error_msg">>} ELSE {})

\* Faulty variant: the argument is not tested before it is released.
resolver_free_unchecked(h, r) ==
    LET n == IF r = None THEN "resolver" ELSE The(r) IN
    h \ {Parts(n).mm, Parts(n).root_hints, Parts(n).ctx}

\* knot_resolver_free: nothing for NULL, otherwise mm, root_hints and the
\* context itself.
knot_resolver_free(h, r) ==
    IF r = None THEN h
    ELSE h \ {Parts(The(r)).mm, Parts(The(r)).root_hints, Parts(The(r)).ctx}

\* knot_resolve_result_free: nothing for NULL, otherwise the wire, the
\* message and the result itself.
knot_resolve_result_free(h, c, r) ==
    IF r = None THEN h
    ELSE h \ ((IF The(r).wire # None THEN {<<c, "wire">>} ELSE {})
              \cup (IF The(r).error_msg # None THEN {<<c, "error_msg">>} ELSE {})
              \cup {<<c, "result">>})

\* Return from recursive_resolve / knot_resolver_resolve with value r.
Return(c, r) ==
    /\ result' = [result EXCEPT ![c] = r]
    /\ heap' = heap \cup ResultObjects(c, r)
    /\ pc' = [pc EXCEPT ![c] = "done"]

\* ------------------------------------------------- comparing two contexts
\* The pointer a caller passes to knot_resolver_resolve when it passes a
\* context, what a pointer points to, and the context a caller passes.
Handle(c) == IF c \in twins THEN "resolver2" ELSE "resolver"

Deref(n) == IF n = "resolver2" THEN resolver2 ELSE resolver

Context(c) == The(Deref(Handle(c)))

\* The caller whose call a twin repeats.
Original(c) == CHOOSE d \in Calls : d \notin twins

\* What the attempt a twin is making has to return: what the same attempt of
\* the original call returned.  {} when nothing is prescribed.
Prescribed(c) ==
    IF c \in twins /\ Len(rets[c]) < Len(rets[Original(c)])
    THEN {rets[Original(c)][Len(rets[c]) + 1]}
    ELSE {}

\* The datagram the original call accepted.
Accepted(c) ==
    IF xfer[c].received > 0 THEN response[c].bytes ELSE <<>>

\* The outcomes of socket(), sendto() and recvfrom() (NULL for an error or
\* timeout, else the datagram), and of knot_pkt_put_question: anything
\* for a caller of its own, what the original call saw for a twin.
SocketOutcomes(c) == IF Prescribed(c) = {0} THEN {TRUE} ELSE BOOLEAN

SendOutcomes(c, query_len) ==
    IF Prescribed(c) = {0} THEN {query_len} ELSE {-1, query_len - 1, query_len}

RecvOutcomes(c) ==
    IF Prescribed(c) = {0} THEN {Some(Accepted(Original(c)))}
    ELSE IF Prescribed(c) = {-1} THEN {None}
    ELSE {None} \cup {Some(d) : d \in NetOf(net)}

OptPutOutcomes(c) ==
    IF c \notin twins THEN puts
    ELSE {codec[Original(c)].opt_put # "failed"}

PutOutcomes(c) ==
    IF c \notin twins THEN BOOLEAN
    ELSE {\A r \in result[Original(c)] : r.error_msg # Some(MSG_QUERY)}

\* A twin calls when the original call has returned, with its arguments; the
\* original keeps its result until the twin has returned.
MayCall(c, a) ==
    IF c \in twins
    THEN /\ pc[Original(c)] = "done"
         /\ ncalls[c] = ncalls[Original(c)]
         /\ a = [args[Original(c)] EXCEPT
                    !.resolver = IF @ = None THEN None ELSE Some(Handle(c))]
    ELSE \A d \in twins : pc[d] = "idle"

MayRelease(c) ==
    IF c \in twins THEN TRUE
    ELSE \A d \in twins : pc[d] = "done" \/ ncalls[d] > ncalls[c]

\* ---------------------------------------------------------------- actions
\* A caller enters knot_resolver_resolve.
Call(c) ==
    /\ c \in threads
    /\ pc[c] = "idle"
    /\ ncalls[c] < maxcalls
    /\ frees = <<>>
    /\ \E r \in {None} \cup {Some(Handle(c)) : ctx \in Deref(Handle(c))},
          q \in {None} \cup {Some(n) : n \in QNames},
          t \in QTypes, k \in QClasses :
          LET a == [resolver |-> r, qname |-> q, qtype |-> t, qclass |-> k] IN
          /\ MayCall(c, a)
          /\ args' = [args EXCEPT ![c] = a]
    /\ pc' = [pc EXCEPT ![c] = "validate"]
    /\ UNCHANGED <<world, locals, xfer, fdtable, returned, history, ncalls, leaked>>

\* knot_resolver_resolve, lines 295-301.  The debug printf of line 295
\* formats qname before the test; for a NULL qname the C libraries in use
\* print "(null)", and the line has no effect on the state modelled here.
Validate(c) ==
    /\ pc[c] = "validate"
    /\ IF InvalidParameters(args[c].resolver, args[c].qname)
       THEN \E m \in AllocOutcomes, s \in AllocOutcomes :
               Return(c, create_error_result(MSG_INVALID_PARAMS, m, s))
       ELSE /\ pc' = [pc EXCEPT ![c] = "build"]
            /\ UNCHANGED returned
    /\ UNCHANGED <<world, args, locals, xfer, fdtable, history, ncalls, leaked>>

\* recursive_resolve, lines 154-188: the query packet, the name, the
\* question, the flags and id, the OPT record, the response buffer.
BuildQuery(c) ==
    /\ pc[c] = "build"
    /\ \E pktOk \in AllocOutcomes, putOk \in PutOutcomes(c), optOk \in AllocOutcomes,
          rdataOk \in AllocOutcomes, optPutOk \in OptPutOutcomes(c), id \in ids,
          m \in AllocOutcomes, s \in AllocOutcomes :
          LET dn == knot_dname_from_str_alloc(The(args[c].qname)) IN
          IF ~pktOk THEN
              /\ Return(c, create_error_result(MSG_QUERY_PKT, m, s))
              /\ UNCHANGED <<locals, codec>>
          ELSE IF dn = None THEN
              /\ Return(c, create_error_result(MSG_INVALID_NAME, m, s))
              /\ UNCHANGED <<locals, codec>>
          ELSE IF ~putOk THEN
              /\ Return(c, create_error_result(MSG_QUERY, m, s))
              /\ UNCHANGED <<locals, codec>>
          ELSE
              /\ query_pkt' = [query_pkt EXCEPT ![c] =
                    Some(BuildQueryPkt(The(dn), args[c].qclass, args[c].qtype, id,
                        AttachOpt(Context(c).dnssec_enabled, optOk, rdataOk, optPutOk)))]
              /\ dname' = [dname EXCEPT ![c] = dn]
              /\ opt_rr' = [opt_rr EXCEPT ![c] = IF optOk THEN Some("OPT") ELSE None]
              /\ codec' = [codec EXCEPT ![c].opt_put =
                    IF ~optOk THEN "none" ELSE IF optPutOk THEN "ok" ELSE "failed"]
              /\ response' = [response EXCEPT ![c] = Uninit]
              /\ response_len' = [response_len EXCEPT ![c] = RESPONSE_BUF]
              /\ i' = [i EXCEPT ![c] = 0]
              /\ pc' = [pc EXCEPT ![c] = "loop"]
              /\ UNCHANGED <<response_pkt, returned>>
    /\ UNCHANGED <<world, args, xfer, fdtable, contacted, rets, ncalls, leaked>>

\* The attempt for server i+1 returned ret (send_dns_query's return value).
Returned(c, ret) ==
    /\ rets' = [rets EXCEPT ![c] = Append(@, ret)]
    /\ pc' = [pc EXCEPT ![c] = AfterAttempt(ret, i[c]).pc]
    /\ i' = [i EXCEPT ![c] = AfterAttempt(ret, i[c]).i]

\* The loop head of line 190 and, for a server, the call of send_dns_query
\* up to line 131: socket() and the receive timeout.
Loop(c) ==
    /\ pc[c] = "loop"
    /\ IF i[c] = NumRootServers
       THEN /\ pc' = [pc EXCEPT ![c] = "check_len"]
            /\ UNCHANGED <<i, xfer, fdtable, history>>
       ELSE /\ contacted' = [contacted EXCEPT ![c] = Append(@, root_servers[i[c] + 1])]
            /\ \E ok \in SocketOutcomes(c) :
                  IF ok /\ \E fd \in Fds : fdtable[fd] = 0
                  THEN /\ xfer' = [xfer EXCEPT ![c] =
                             [sockfd |-> LowestFree(fdtable), tv_sec |-> RCVTIMEO_SEC,
                              port |-> DNS_PORT,
                              query_len |-> QuerySize(The(query_pkt[c])),
                              sent |-> 0, received |-> 0, ops |-> <<>>]]
                       /\ fdtable' = [fdtable EXCEPT ![LowestFree(fdtable)] = c]
                       /\ pc' = [pc EXCEPT ![c] = "sendto"]
                       /\ UNCHANGED <<i, rets>>
                  ELSE /\ xfer' = [xfer EXCEPT ![c] =
                             [NoXfer EXCEPT !.sockfd = -1, !.port = DNS_PORT,
                                 !.query_len = QuerySize(The(query_pkt[c]))]]
                       /\ Returned(c, -1)
                       /\ UNCHANGED fdtable
    /\ UNCHANGED <<world, args, query_pkt, dname, opt_rr, response, response_len,
                   response_pkt, returned, codec, ncalls, leaked>>

\* send_dns_query, lines 133-138: one sendto; anything but a full send
\* closes the socket and fails.
SendTo(c) ==
    /\ pc[c] = "sendto"
    /\ LET query_len == xfer[c].query_len IN
       \E sent \in SendOutcomes(c, query_len) :
          /\ xfer' = [xfer EXCEPT ![c].sent = sent, ![c].ops = Append(@, "sendto")]
          /\ IF SendFailed(sent, query_len)
             THEN /\ fdtable' = CloseAfterSend(fdtable, xfer[c].sockfd)
                  /\ Returned(c, -1)
             ELSE /\ pc' = [pc EXCEPT ![c] = "recvfrom"]
                  /\ UNCHANGED <<fdtable, i, rets>>
    /\ UNCHANGED <<world, args, query_pkt, dname, opt_rr, response, response_len,
                   response_pkt, returned, contacted, codec, ncalls, leaked>>

\* send_dns_query, lines 140-142: one recvfrom into the caller's buffer; it
\* fails (error or timeout) or delivers a datagram, possibly an empty one.
RecvFrom(c) ==
    /\ pc[c] = "recvfrom"
    /\ \E o \in RecvOutcomes(c) :
          IF o = None
          THEN /\ xfer' = [xfer EXCEPT ![c].received = -1,
                                       ![c].ops = Append(@, "recvfrom")]
               /\ UNCHANGED response
          ELSE /\ xfer' = [xfer EXCEPT ![c].received = Len(The(o)),
                                       ![c].ops = Append(@, "recvfrom")]
               /\ response' = [response EXCEPT ![c] =
                     IF Len(The(o)) > 0
                     THEN [from |-> root_servers[i[c] + 1], bytes |-> The(o)]
                     ELSE @]
    /\ pc' = [pc EXCEPT ![c] = "close"]
    /\ UNCHANGED <<world, args, query_pkt, dname, opt_rr, response_len, i, fdtable,
                   response_pkt, returned, history, ncalls, leaked>>

\* send_dns_query, lines 143-148: close, then fail or store the length.
Close(c) ==
    /\ pc[c] = "close"
    /\ fdtable' = close(fdtable, xfer[c].sockfd)
    /\ IF xfer[c].received < 0
       THEN /\ Returned(c, -1)
            /\ UNCHANGED response_len
       ELSE /\ response_len' = [response_len EXCEPT ![c] = xfer[c].received]
            /\ Returned(c, 0)
    /\ UNCHANGED <<world, args, query_pkt, dname, opt_rr, response, xfer,
                   response_pkt, returned, contacted, codec, ncalls, leaked>>

\* recursive_resolve, lines 197-201.
CheckLen(c) ==
    /\ pc[c] = "check_len"
    /\ IF NoResponse(response_len[c])
       THEN /\ dname' = [dname EXCEPT ![c] = None]
            /\ query_pkt' = [query_pkt EXCEPT ![c] = None]
            /\ \E m \in AllocOutcomes, s \in AllocOutcomes :
                  Return(c, create_error_result(MSG_NO_RESPONSE, m, s))
       ELSE /\ pc' = [pc EXCEPT ![c] = "parse"]
            /\ UNCHANGED <<dname, query_pkt, returned>>
    /\ UNCHANGED <<world, args, opt_rr, response, response_len, i, xfer, fdtable,
                   response_pkt, history, ncalls, leaked>>

\* What the buffer can hold when it is read: the datagram received, or, when
\* nothing was ever written to it, any bytes at all.
BufferContents(c) ==
    IF response[c].from = 0
    THEN {[from |-> 0, bytes |-> g] : g \in NetOf(net) \ {<<>>}}
    ELSE {response[c]}

\* recursive_resolve, lines 204-216: wrap the buffer and parse it.
Parse(c) ==
    /\ pc[c] = "parse"
    /\ \E newOk \in AllocOutcomes, buf \in BufferContents(c),
          m \in AllocOutcomes, s \in AllocOutcomes :
          IF ~newOk THEN
              /\ dname' = [dname EXCEPT ![c] = None]
              /\ query_pkt' = [query_pkt EXCEPT ![c] = None]
              /\ Return(c, create_error_result(MSG_RESPONSE_PKT, m, s))
              /\ UNCHANGED <<response, response_pkt, codec>>
          ELSE IF ~knot_pkt_parse(buf.bytes) THEN
              /\ dname' = [dname EXCEPT ![c] = None]
              /\ query_pkt' = [query_pkt EXCEPT ![c] = None]
              /\ Return(c, create_error_result(MSG_PARSE, m, s))
              /\ codec' = [codec EXCEPT ![c].called = TRUE]
              /\ UNCHANGED <<response, response_pkt>>
          ELSE
              /\ response' = [response EXCEPT ![c] = buf]
              /\ response_pkt' = [response_pkt EXCEPT ![c] =
                    Some([wire |-> buf, size |-> response_len[c]])]
              /\ codec' = [codec EXCEPT ![c].called = TRUE, ![c].ok = TRUE,
                                        ![c].msg = buf.bytes]
              /\ pc' = [pc EXCEPT ![c] = "classify"]
              /\ UNCHANGED <<dname, query_pkt, returned>>
    /\ UNCHANGED <<world, args, opt_rr, response_len, i, xfer, fdtable, contacted, rets,
                   ncalls, leaked>>

\* recursive_resolve, lines 218-245: rcode, the RRSIG scan, the success
\* result, the releases.
Classify(c) ==
    /\ pc[c] = "classify"
    /\ LET pkt == The(response_pkt[c])
           rcode == knot_wire_get_rcode(pkt.wire.bytes)
           secure == Secure(Context(c).dnssec_enabled, pkt.wire.bytes)
           bogus == Bogus(Context(c).dnssec_enabled, pkt.wire.bytes)
       IN \E m \in AllocOutcomes, w \in AllocOutcomes :
             Return(c, create_success_result(pkt.wire, pkt.size, rcode, secure, bogus, m, w))
    /\ dname' = [dname EXCEPT ![c] = None]
    /\ query_pkt' = [query_pkt EXCEPT ![c] = None]
    /\ response_pkt' = [response_pkt EXCEPT ![c] = None]
    /\ UNCHANGED <<world, args, opt_rr, response, response_len, i, xfer, fdtable,
                   history, ncalls, leaked>>

\* The objects of the call that are still allocated.
Unreleased(c) ==
    Cardinality(query_pkt[c]) + Cardinality(dname[c]) + Cardinality(opt_rr[c])
    + Cardinality(response_pkt[c])

\* The caller takes the result and releases it (knot_resolve_result_free);
\* the frame of the call is gone, and what it still held is lost.
Release(c) ==
    /\ pc[c] = "done"
    /\ MayRelease(c)
    /\ leaked' = leaked + Unreleased(c)
    /\ ncalls' = [ncalls EXCEPT ![c] = @ + 1]
    /\ pc' = [pc EXCEPT ![c] = "idle"]
    /\ args' = [args EXCEPT ![c] = NoArgs]
    /\ query_pkt' = [query_pkt EXCEPT ![c] = None]
    /\ dname' = [dname EXCEPT ![c] = None]
    /\ opt_rr' = [opt_rr EXCEPT ![c] = None]
    /\ response' = [response EXCEPT ![c] = Uninit]
    /\ response_len' = [response_len EXCEPT ![c] = 0]
    /\ i' = [i EXCEPT ![c] = 0]
    /\ xfer' = [xfer EXCEPT ![c] = NoXfer]
    /\ response_pkt' = [response_pkt EXCEPT ![c] = None]
    /\ result' = [result EXCEPT ![c] = None]
    /\ heap' = knot_resolve_result_free(heap, c, result[c])
    /\ contacted' = [contacted EXCEPT ![c] = <<>>]
    /\ rets' = [rets EXCEPT ![c] = <<>>]
    /\ codec' = [codec EXCEPT ![c] = NoCodec]
    /\ UNCHANGED <<world, fdtable>>

\* knot_resolver_new is called, with any arguments of the run and any
\* outcome of its allocations; a NULL return leaves nothing behind and the
\* caller may try again.  In a run that compares two contexts a second call
\* builds the second one, with arguments that make it differ from the first
\* in exactly one field; each call leaves its own allocations.
New ==
    /\ \A k \in 1 .. Len(frees) : frees[k] = None
    /\ \E n \in (IF twins = {} THEN {"resolver"} ELSE Handles),
          p \in ParamsOf(params),
          resolverOk \in AllocOutcomes, mmOk \in AllocOutcomes, strdupOk \in AllocOutcomes :
          LET r == knot_resolver_new(p[1], p[2], p[3], resolverOk, mmOk, strdupOk) IN
          /\ Deref(n) = None
          /\ n = "resolver2" =>
                /\ resolver # None
                /\ r # None => Cardinality(FieldsDiffering(The(resolver), The(r))) = 1
          /\ resolver' = IF n = "resolver" THEN r ELSE resolver
          /\ resolver2' = IF n = "resolver2" \/ twins = {} THEN r ELSE resolver2
          /\ heap' = heap \cup ContextObjects(r, n)
    /\ UNCHANGED <<config, frees, lookup, pc, args, locals, xfer, fdtable, result, history,
                   ncalls, leaked>>

\* The owner of the contexts, when no call is running, calls
\* knot_resolver_free: with NULL, or with a context it has built and not
\* yet freed.
FreeResolver ==
    /\ \A c \in Calls : pc[c] = "idle"
    /\ \E r \in {None} \cup {Some(n) : n \in (IF twins = {} THEN {"resolver"} ELSE Handles)} :
          /\ r = None => \A k \in 1 .. Len(frees) : frees[k] # None
          /\ r # None => Parts(The(r)).ctx \in heap
          /\ heap' = knot_resolver_free(heap, r)
          /\ frees' = Append(frees, r)
    /\ UNCHANGED <<resolver, config, lookup, resolver2, pc, args, locals, xfer, fdtable,
                   result, history, ncalls, leaked>>

Next ==
    \/ New
    \/ FreeResolver
    \/ \E c \in Calls :
        \/ Call(c)
        \/ Validate(c)
        \/ BuildQuery(c)
        \/ Loop(c)
        \/ SendTo(c)
        \/ RecvFrom(c)
        \/ Close(c)
        \/ CheckLen(c)
        \/ Parse(c)
        \/ Classify(c)
        \/ Release(c)

Spec == Init /\ [][Next]_vars
SpecAlloc == InitAlloc /\ [][Next]_vars
SpecCtx == InitCtx /\ [][Next]_vars

\* Two contexts that differ in exactly one field: caller 1 resolves with the
\* first, then caller 2 repeats the call with the second under the same
\* transport outcomes and the same outcome of knot_pkt_put for the OPT
\* record.  Allocations succeed; one transaction id.
InitTwin ==
    /\ InitCalls({FALSE}, {1, 2}, "all", "small")
    /\ ids = {0}
    /\ maxcalls = MaxCalls
    /\ puts = BOOLEAN
    /\ lookup = NoLookup
    /\ twins = {2}

SpecTwin == InitTwin /\ [][Next]_vars

\* Two callers resolve concurrently on one shared context.
InitConc ==
    /\ InitCalls({FALSE}, {1, 2}, "one", "conc")
    /\ ids = {0}
    /\ maxcalls = MaxConcCalls
    /\ puts = {TRUE}
    /\ lookup = NoLookup
    /\ twins = {}

SpecConc == InitConc /\ [][Next]_vars

\* The registry lookups, applied to every 16-bit code.
InitRegistry ==
    /\ InitCalls({FALSE}, {1}, "one", "small")
    /\ ids = TxIds
    /\ maxcalls = MaxCalls
    /\ puts = BOOLEAN
    /\ lookup \in {[kind |-> "none", code |-> n, name |-> None] : n \in 0 .. 65535}
    /\ twins = {}

QTypeToString ==
    /\ lookup.kind = "none"
    /\ lookup' = [kind |-> "type", code |-> lookup.code,
                  name |-> Some(knot_qtype_to_string(lookup.code))]
    /\ UNCHANGED <<resolver, config, heap, frees, resolver2, pc, args, locals, xfer,
                   fdtable, result, history, ncalls, leaked>>

QClassToString ==
    /\ lookup.kind = "none"
    /\ lookup' = [kind |-> "class", code |-> lookup.code,
                  name |-> Some(knot_qclass_to_string(lookup.code))]
    /\ UNCHANGED <<resolver, config, heap, frees, resolver2, pc, args, locals, xfer,
                   fdtable, result, history, ncalls, leaked>>

NextRegistry == QTypeToString \/ QClassToString

SpecRegistry == InitRegistry /\ [][NextRegistry]_vars

\* ------------------------------------------------------------ properties
InTransport(c) == pc[c] \in {"sendto", "recvfrom", "close"}
OpenBy(c) == {fd \in Fds : fdtable[fd] = c}
AllFailed(c) ==
    /\ Len(rets[c]) = NumRootServers
    /\ \A k \in 1 .. NumRootServers : rets[c][k] = -1
ErrorResult(msg) ==
    [wire |-> None, wire_size |-> 0, rcode |-> SERVFAIL, secure |-> FALSE,
     bogus |-> FALSE, error_msg |-> Some(msg)]

\* C1: when the attempt fails for all 13 root servers, no parsing is
\* attempted and Resolve returns the error result "No response from root
\* servers" (wire absent, wireSize 0, rcode 2).
C1_ExhaustionReported ==
    \A c \in Calls :
        AllFailed(c) =>
            /\ pc[c] \notin {"parse", "classify"}
            /\ pc[c] = "done" => result[c] = Some(ErrorResult(MSG_NO_RESPONSE))

\* C2: the servers are contacted in list order, each at most once, at most
\* 13 in all, and a successful attempt is the last one: nothing is contacted
\* after it and the loop is left.
C2_InOrderUntilFirstSuccess ==
    \A c \in Calls :
        /\ Len(contacted[c]) <= NumRootServers
        /\ \A k \in 1 .. Len(contacted[c]) : contacted[c][k] = root_servers[k]
        /\ Len(rets[c]) <= Len(contacted[c])
        /\ \A k \in 1 .. Len(rets[c]) :
              rets[c][k] = 0 =>
                  /\ k = Len(rets[c])
                  /\ k = Len(contacted[c])
                  /\ pc[c] \notin {"loop", "sendto", "recvfrom", "close"}

C2_Witness ==
    \E c \in Calls :
        pc[c] = "done" /\ contacted[c] = <<1, 2>> /\ rets[c] = <<-1, 0>>

\* C3: every result returned is either a success (wire present, wireSize
\* > 0, rcode that of a response received from a server, no error message)
\* or an error (wire absent, wireSize 0, rcode 2, error message set).
C3_TwoVariants ==
    \A c \in Calls :
        pc[c] = "done" =>
            \A r \in result[c] :
                \/ /\ r.wire # None
                   /\ r.wire_size > 0
                   /\ \A w \in r.wire : w.from # 0 /\ r.rcode = w.bytes[1]
                   /\ r.error_msg = None
                \/ /\ r.wire = None
                   /\ r.wire_size = 0
                   /\ r.rcode = SERVFAIL
                   /\ r.error_msg # None

\* C4: a call with an absent context or a null or empty qname opens no
\* socket, contacts no server, and returns an error result (wire absent,
\* rcode 2, message set).
InvalidCall(c) ==
    \/ args[c].resolver = None
    \/ args[c].qname = None
    \/ args[c].qname = Some(<<>>)

C4_InvalidInputNoNetwork ==
    \A c \in Calls :
        (pc[c] # "idle" /\ InvalidCall(c)) =>
            /\ contacted[c] = <<>>
            /\ xfer[c] = NoXfer
            /\ OpenBy(c) = {}
            /\ pc[c] \in {"validate", "build", "done"}
            /\ pc[c] = "done" =>
                  /\ result[c] # None
                  /\ \A r \in result[c] :
                        /\ r.wire = None
                        /\ r.rcode = SERVFAIL
                        /\ r.error_msg # None

C4_Witness ==
    \E c \in Calls :
        /\ pc[c] = "done"
        /\ args[c].resolver # None
        /\ args[c].qname = Some(<<>>)
        /\ result[c] = Some(ErrorResult(MSG_INVALID_NAME))

\* C5: when a call returns, the query message, the encoded name, the OPT
\* record and the parsed response have all been released, and no number of
\* calls leaves any of them allocated.
C5_IntermediatesReleased ==
    /\ leaked = 0
    /\ \A c \in Calls : pc[c] = "done" => Unreleased(c) = 0

\* C6: Resolve never returns an absent result, a result without a wire
\* buffer always carries an error message, and exhaustion of the servers
\* yields a result without a wire buffer, also when an allocation fails.
C6_ErrorsFullyFormed ==
    \A c \in Calls :
        pc[c] = "done" =>
            /\ result[c] # None
            /\ \A r \in result[c] : r.wire = None => r.error_msg # None
            /\ AllFailed(c) => \A r \in result[c] : r.wire = None

\* C7: when an attempt succeeds with a non-empty response that parses, the
\* call returns a success result with the response's header rcode (any of
\* 0..15), the wire present and no error message.
C7_RcodePassedThrough ==
    \A c \in Calls :
        ( /\ pc[c] = "done"
          /\ rets[c] # <<>>
          /\ rets[c][Len(rets[c])] = 0
          /\ response_len[c] > 0
          /\ knot_pkt_parse(response[c].bytes) ) =>
            /\ result[c] # None
            /\ \A r \in result[c] :
                  /\ r.rcode = response[c].bytes[1]
                  /\ r.wire = Some(response[c])
                  /\ r.error_msg = None
            /\ Len(contacted[c]) = Len(rets[c])

C7_Witness ==
    \E c \in Calls :
        /\ pc[c] = "done"
        /\ rets[c] = <<-1, -1, 0>>
        /\ \E r \in result[c] :
              r.rcode = 10 /\ r.wire # None /\ r.error_msg = None

\* C8: a success result is secure exactly when the context has DNSSEC
\* enabled and some record of the response is an RRSIG; an error result is
\* never secure.
C8_SecureIffEnabledAndSigned ==
    \A c \in Calls :
        pc[c] = "done" =>
            \A r \in result[c] :
                IF r.wire = None THEN ~r.secure
                ELSE \A w \in r.wire :
                        r.secure <=>
                            /\ Context(c).dnssec_enabled
                            /\ \E k \in 5 .. Len(w.bytes) :
                                  w.bytes[k] = KNOT_RRTYPE_RRSIG

C8_Witness ==
    \E c \in Calls :
        /\ pc[c] = "done"
        /\ \E r \in result[c] :
              /\ r.secure
              /\ \E w \in r.wire :
                    w.from # 0 /\ w.bytes[4] = 1
                    /\ w.bytes[5] = KNOT_RRTYPE_RRSIG

\* C9: a caller has at most one socket open, only inside a transport
\* attempt, and none once the attempt (and so the call) has returned.
C9_SocketClosedOnEveryPath ==
    \A c \in Calls :
        /\ Cardinality(OpenBy(c)) <= 1
        /\ ~InTransport(c) => OpenBy(c) = {}

C9_Witness ==
    \E c \in Calls :
        /\ pc[c] = "loop"
        /\ rets[c] = <<-1>>
        /\ xfer[c].sockfd \in Fds
        /\ xfer[c].sent = QuerySize(The(query_pkt[c])) - 1
        /\ fdtable[xfer[c].sockfd] = 0

\* C10: bogus is false in every result returned.
C10_BogusNeverSet ==
    \A c \in Calls :
        pc[c] = "done" => \A r \in result[c] : ~r.bogus

C10_Witness ==
    \E c \in Calls :
        /\ pc[c] = "done"
        /\ \E ctx \in resolver : ctx.dnssec_enabled
        /\ \E r \in result[c] : r.wire # None /\ ~r.secure /\ ~r.bogus

\* C11: once built, the context's fields are changed by no step, and no
\* step of a call releases any part of the live context;
\* knot_resolver_free(NULL) and knot_resolve_result_free(NULL) leave every
\* allocation as it was.
C11_ContextFrame ==
    [][ /\ resolver # None => resolver' = resolver
        /\ resolver2 # None => resolver2' = resolver2
        /\ \A n \in Handles :
              frees' = frees /\ Parts(n).ctx \in heap
                 => ContextObjects(Deref(n), n) \subseteq heap'
        /\ (frees' # frees /\ frees'[Len(frees')] = None => heap' = heap)
        /\ \A c \in Calls :
              pc[c] = "done" /\ pc'[c] = "idle" /\ result[c] = None => heap' = heap
      ]_vars

\* Two calls have run on a context with root hints, knot_resolver_free(NULL)
\* was called, and the context is whole.
C11_Witness ==
    /\ frees = <<None>>
    /\ ncalls[1] = MaxCalls
    /\ \E ctx \in resolver : ctx.root_hints # None
    /\ heap = ContextObjects(resolver, "resolver")

\* The documented mnemonics.
TypeMnemonic(code) ==
    CASE code = 1 -> "A" [] code = 2 -> "NS" [] code = 5 -> "CNAME" [] code = 6 -> "SOA"
      [] code = 12 -> "PTR" [] code = 15 -> "MX" [] code = 16 -> "TXT"
      [] code = 28 -> "AAAA" [] code = 33 -> "SRV" [] code = 43 -> "DS"
      [] code = 46 -> "RRSIG" [] code = 47 -> "NSEC" [] code = 48 -> "DNSKEY"
      [] code = 50 -> "NSEC3" [] code = 51 -> "NSEC3PARAM" [] OTHER -> "UNKNOWN"

ClassMnemonic(code) ==
    CASE code = 1 -> "IN" [] code = 3 -> "CH" [] code = 4 -> "HS" [] OTHER -> "UNKNOWN"

\* C12: for every 16-bit code, knot_qtype_to_string and
\* knot_qclass_to_string return the documented mnemonic of a listed code and
\* "UNKNOWN" for every other code.
C12_RegistryLookups ==
    /\ lookup.kind = "type" => lookup.name = Some(TypeMnemonic(lookup.code))
    /\ lookup.kind = "class" => lookup.name = Some(ClassMnemonic(lookup.code))

\* The last entry of the type table was looked up.
C12_Witness == lookup = [kind |-> "type", code |-> 51, name |-> Some("NSEC3PARAM")]

\* The stage of the pipeline a caller is in.  The loop over the servers, the
\* attempt in progress and the length test that follows the loop make up
\* QueryingServers.
Stage(c) ==
    CASE pc[c] = "idle" -> "Start"
      [] pc[c] = "validate" -> "Validating"
      [] pc[c] = "build" -> "BuildingQuery"
      [] pc[c] \in {"loop", "sendto", "recvfrom", "close", "check_len"} -> "QueryingServers"
      [] pc[c] = "parse" -> "ParsingResponse"
      [] pc[c] = "classify" -> "ClassifyingSecurity"
      [] pc[c] = "done" -> "Done"

NextStage(st) ==
    CASE st = "Start" -> "Validating"
      [] st = "Validating" -> "BuildingQuery"
      [] st = "BuildingQuery" -> "QueryingServers"
      [] st = "QueryingServers" -> "ParsingResponse"
      [] st = "ParsingResponse" -> "ClassifyingSecurity"
      [] st = "ClassifyingSecurity" -> "Done"
      [] st = "Done" -> "Start"

\* A call changes stage only to the next stage or, on failure, to Done with
\* an error result.
StagesInOrder ==
    \A c \in Calls :
        Stage(c)' # Stage(c) =>
            \/ Stage(c)' = NextStage(Stage(c))
            \/ /\ Stage(c)' = "Done"
               /\ \A r \in result'[c] : r.error_msg # None /\ r.wire = None

\* C13: a call moves through Validating, BuildingQuery, QueryingServers,
\* ParsingResponse, ClassifyingSecurity, Done in that order, a failure leads
\* directly to Done with an error, and ParsingResponse and
\* ClassifyingSecurity are entered only after some server's attempt
\* succeeded.
C13_StagesInOrderAfterSuccess ==
    [][ /\ StagesInOrder
        /\ \A c \in Calls :
              Stage(c)' \in {"ParsingResponse", "ClassifyingSecurity"} =>
                  \E k \in 1 .. Len(rets[c]) : rets[c][k] = 0
      ]_vars

\* The attempt that ended the loop succeeded with a datagram of length 0.
EmptyDatagramAccepted(c) ==
    /\ Len(rets[c]) >= 1
    /\ rets[c][Len(rets[c])] = 0
    /\ xfer[c].received = 0

\* C14: when the first server whose attempt succeeds returns a zero-length
\* datagram, no later server is contacted and the call returns the error
\* result "No response from root servers" with no wire.
C14_EmptyDatagramIsNoResponse ==
    \A c \in Calls :
        EmptyDatagramAccepted(c) =>
            /\ pc[c] \in {"check_len", "done"}
            /\ Len(contacted[c]) = Len(rets[c])
            /\ pc[c] = "done" => result[c] = Some(ErrorResult(MSG_NO_RESPONSE))

\* The first server failed, the second returned an empty datagram, and the
\* call has returned.
C14_Witness ==
    \E c \in Calls :
        /\ pc[c] = "done"
        /\ rets[c] = <<-1, 0>>
        /\ EmptyDatagramAccepted(c)
        /\ contacted[c] = <<1, 2>>
        /\ \E r \in result[c] : r.error_msg = Some(MSG_NO_RESPONSE) /\ r.wire = None

\* Some attempt of the call succeeded.
SomeAttemptSucceeded(c) == \E k \in 1 .. Len(rets[c]) : rets[c][k] = 0

\* The call accepted a non-empty datagram that the codec rejects.
UnparsableAccepted(c) ==
    /\ SomeAttemptSucceeded(c)
    /\ xfer[c].received > 0
    /\ ~knot_pkt_parse(response[c].bytes)

ParseFailureReported(c) ==
    pc[c] = "done" /\ UnparsableAccepted(c) => result[c] = Some(ErrorResult(MSG_PARSE))

\* C15: an accepted non-empty response that fails to parse yields the error
\* "Failed to parse response" (not the exhaustion message), no wire, rcode
\* 2; and that message is produced only in calls where some attempt
\* succeeded.
C15_ParseFailureOnlyAfterSuccess ==
    /\ MSG_PARSE # MSG_NO_RESPONSE
    /\ \A c \in Calls :
          /\ ParseFailureReported(c)
          /\ pc[c] = "done" /\ (\E r \in result[c] : r.error_msg = Some(MSG_PARSE))
                => SomeAttemptSucceeded(c)

\* The wire of result r, returned to caller c, is a live allocation of its
\* own holding the datagram the last contacted server sent, all of it.
WireIsDatagramReceived(c, r) ==
    /\ SomeAttemptSucceeded(c)
    /\ The(r.wire).from = contacted[c][Len(contacted[c])]
    /\ The(r.wire).bytes = response[c].bytes
    /\ r.wire_size = xfer[c].received
    /\ r.wire_size = Len(The(r.wire).bytes)
    /\ <<c, "wire">> \in heap
    /\ response_pkt[c] = None

\* C16: the wire of every success result is an independent copy of exactly
\* the datagram received from the server whose attempt succeeded, wireSize
\* being the number of bytes received; it is never data of a failed attempt,
\* and it outlives the response message.
C16_WireIsDatagramReceived ==
    \A c \in Calls :
        pc[c] = "done" =>
            \A r \in result[c] : r.wire # None => WireIsDatagramReceived(c, r)

\* The last attempt of the call has returned and no other has begun; xfer
\* holds what that attempt did.
AttemptOver(c) == Len(rets[c]) >= 1 /\ Len(rets[c]) = Len(contacted[c])
LastRet(c) == rets[c][Len(rets[c])]

\* What an attempt that reached sendto does: one send; no receive after a
\* short or failed send, one receive otherwise; success exactly when the
\* receive returned a length; a failure leaves response_len as it was.
OneSendAtMostOneReceive(c) ==
    /\ xfer[c].ops \in {<<"sendto">>, <<"sendto", "recvfrom">>}
    /\ xfer[c].sent # xfer[c].query_len => xfer[c].ops = <<"sendto">>
    /\ xfer[c].sent = xfer[c].query_len => xfer[c].ops = <<"sendto", "recvfrom">>
    /\ LastRet(c) = 0 <=> xfer[c].ops = <<"sendto", "recvfrom">> /\ xfer[c].received >= 0
    /\ LastRet(c) # 0 => response_len[c] = RESPONSE_BUF

\* C17 as stated: every attempt performs exactly one send and at most one
\* receive, in that order; a short or failed send fails the attempt without
\* a receive, otherwise exactly one receive follows and the attempt succeeds
\* iff it returns a datagram; a failed attempt leaves the response length
\* unchanged.
C17_ExactlyOneSend ==
    \A c \in Calls : AttemptOver(c) => OneSendAtMostOneReceive(c)

\* C17, amended: an attempt whose socket() fails performs no send and no
\* receive and fails, leaving the response length unchanged; every other
\* attempt is as stated.
C17_OneSendOnceSocketOpen ==
    \A c \in Calls :
        AttemptOver(c) =>
            IF xfer[c].sockfd < 0
            THEN /\ xfer[c].ops = <<>>
                 /\ LastRet(c) = -1
                 /\ response_len[c] = RESPONSE_BUF
            ELSE OneSendAtMostOneReceive(c)

\* An attempt sent one byte less than the query, did not receive, failed,
\* and the response length is still the buffer size.
C17_Witness ==
    \E c \in Calls :
        /\ AttemptOver(c)
        /\ xfer[c].sockfd \in Fds
        /\ xfer[c].sent = xfer[c].query_len - 1
        /\ xfer[c].ops = <<"sendto">>
        /\ LastRet(c) = -1
        /\ response_len[c] = RESPONSE_BUF

\* The fields in which the two contexts of a comparison differ.
ContextsDiffer ==
    IF resolver = None \/ resolver2 = None THEN {}
    ELSE FieldsDiffering(The(resolver), The(resolver2))

\* Both calls of a comparison have returned.
BothDone(c, d) == c \notin twins /\ d \in twins /\ pc[c] = "done" /\ pc[d] = "done"

\* The two calls saw the same codec outcomes: knot_pkt_put of the OPT record
\* ended the same way in both, knot_pkt_parse was reached in both or in
\* neither, and failed in both or decoded the same message in both.
SameCodecOutcomes(c, d) == codec[c] = codec[d]

\* The results agree on everything but secure.
AgreeButSecure(r1, r2) ==
    /\ r1.wire = r2.wire
    /\ r1.wire_size = r2.wire_size
    /\ r1.rcode = r2.rcode
    /\ r1.bogus = r2.bogus
    /\ r1.error_msg = r2.error_msg

\* C18: for two contexts that differ only in dnssec_enabled and see the same
\* transport and codec outcomes, the query carries the OPT record in both
\* calls, the same servers are contacted in the same order, and the results
\* agree on wire, wire_size, rcode, bogus and error message.
C18_QuerySideIgnoresDnssec ==
    ContextsDiffer = {"dnssec_enabled"} =>
        /\ \A c \in Calls : \A q \in query_pkt[c] : q.opt
        /\ \A c, d \in Calls :
              BothDone(c, d) =>
                  /\ contacted[c] = contacted[d]
                  /\ SameCodecOutcomes(c, d) =>
                        AgreeButSecure(The(result[c]), The(result[d]))

\* C18, amended: for two contexts that differ only in dnssec_enabled and see
\* the same transport and codec outcomes, the query carries the OPT record
\* exactly when knot_pkt_put put it, whatever the flag; the same servers are
\* contacted in the same order, and the results agree on wire, wire_size,
\* rcode, bogus and error message.
C18_OptWhenPutWhateverTheFlag ==
    ContextsDiffer = {"dnssec_enabled"} =>
        /\ \A c \in Calls : \A q \in query_pkt[c] : q.opt <=> codec[c].opt_put = "ok"
        /\ \A c, d \in Calls :
              BothDone(c, d) =>
                  /\ contacted[c] = contacted[d]
                  /\ SameCodecOutcomes(c, d) =>
                        AgreeButSecure(The(result[c]), The(result[d]))

\* Two calls on contexts that differ only in dnssec_enabled have returned
\* after a query without the OPT record (knot_pkt_put failed), a failed
\* first attempt and the same signed answer, and only secure differs.
C18_Witness ==
    \E c, d \in Calls :
        /\ ContextsDiffer = {"dnssec_enabled"}
        /\ BothDone(c, d)
        /\ SameCodecOutcomes(c, d)
        /\ codec[c].opt_put = "failed"
        /\ codec[c].ok
        /\ contacted[c] = contacted[d] /\ Len(contacted[c]) > 1
        /\ The(result[c]).secure # The(result[d]).secure
        /\ AgreeButSecure(The(result[c]), The(result[d]))

\* C19: every attempt uses the fixed receive timeout of 5 seconds, whatever
\* the context says; for two contexts that differ only in timeout_ms or
\* root_hints and see the same transport outcomes, the same servers are
\* contacted and the same result is returned.
C19_TimeoutFixedResultSame ==
    /\ \A c \in Calls : InTransport(c) => xfer[c].tv_sec = RCVTIMEO_SEC
    /\ ContextsDiffer # {} /\ ContextsDiffer \subseteq {"timeout_ms", "root_hints"} =>
          \A c, d \in Calls :
              BothDone(c, d) =>
                  /\ contacted[c] = contacted[d]
                  /\ result[c] = result[d]

\* Everything that belongs to one call: its arguments, its locals and those
\* of its send_dns_query, its result.
CallState(c) ==
    <<pc[c], args[c], query_pkt[c], dname[c], opt_rr[c], response[c], response_len[c],
      i[c], xfer[c], response_pkt[c], result[c], contacted[c], rets[c], ncalls[c]>>

\* The step is one of caller c.
Mover(c) == CallState(c)' # CallState(c)

\* The results a call can return from where it is, told from its own state
\* and the context alone (allocations succeeding).
OwnResults(c) ==
    CASE pc[c] = "validate" -> {ErrorResult(MSG_INVALID_PARAMS)}
      [] pc[c] = "build" -> {ErrorResult(MSG_INVALID_NAME), ErrorResult(MSG_QUERY)}
      [] pc[c] = "check_len" -> {ErrorResult(MSG_NO_RESPONSE)}
      [] pc[c] = "parse" -> {ErrorResult(MSG_PARSE)}
      [] pc[c] = "classify" ->
            {[wire |-> Some(response[c]), wire_size |-> response_len[c],
              rcode |-> response[c].bytes[1] % 16,
              secure |-> Context(c).dnssec_enabled
                         /\ \E k \in 5 .. Len(response[c].bytes) :
                               response[c].bytes[k] = KNOT_RRTYPE_RRSIG,
              bogus |-> FALSE, error_msg |-> None]}
      [] OTHER -> {}

\* C20: with two calls running concurrently on one shared context, under
\* every interleaving: the socket of a call in transport is its own; a step
\* changes the state of one call only; a descriptor is taken only when free
\* and closed only by the call that opened it; the heap loses and gains only
\* objects of the call that steps; the result a call returns is one its own
\* state determines; the context is not written.
C20_ConcurrentCallsIsolated ==
    [][ /\ resolver # None => resolver' = resolver
        /\ \A c \in Calls : InTransport(c) => fdtable[xfer[c].sockfd] = c
        /\ \A c, d \in Calls : c # d => ~(Mover(c) /\ Mover(d))
        /\ \A fd \in Fds :
              fdtable'[fd] # fdtable[fd] =>
                  \E c \in Calls :
                      /\ Mover(c)
                      /\ \/ fdtable[fd] = 0 /\ fdtable'[fd] = c
                         \/ fdtable[fd] = c /\ fdtable'[fd] = 0
        /\ \A o \in (heap \ heap') \cup (heap' \ heap) : o[1] = 0 \/ Mover(o[1])
        /\ \A c \in Calls :
              pc[c] # "done" /\ pc'[c] = "done" =>
                  \E r \in OwnResults(c) : result'[c] = Some(r)
      ]_vars

\* Both calls are inside send_dns_query at once, each with its own socket,
\* buffer and query.
C20_Witness ==
    /\ pc[1] = "recvfrom"
    /\ pc[2] = "close"
    /\ xfer[1].sockfd # xfer[2].sockfd
    /\ fdtable[xfer[1].sockfd] = 1
    /\ fdtable[xfer[2].sockfd] = 2
    /\ response[2].from # 0
    /\ response[1].from = 0
====
